---- MODULE Spec2Model ----
(***************************************************************************)
(* A model of dashboard.py, the Streamlit script that lists the monthly    *)
(* crawl reports of an S3 bucket (accessibility, broken links, SEO),       *)
(* preloads them into the session, and renders one tab per category and    *)
(* one sub-tab per month.  One run of the script is the sequence of steps  *)
(* FetchFileLists, Preload, AccessibilityTab, BrokenLinksTab, SeoTab; a    *)
(* user interaction reruns the script with the session state kept.         *)
(*                                                                         *)
(* Strings are sequences of one-character strings, so that split, slicing, *)
(* startswith and sorting are computed as Python computes them.  A cell of *)
(* a table is a number, a text or NaN (what pandas reads for an empty      *)
(* field).  Scores, lengths and status codes are whole numbers.            *)
(***************************************************************************)
EXTENDS Integers, Sequences, FiniteSets, TLC

\* ------------------------------------------------------------------ bounds

\* The most artifacts one category lists when the identifiers vary.
MaxFiles == 3

\* The most rows the stored tables of one category hold together when the
\* rows vary.
MaxRows == 2

\* ----------------------------------------------------------------- strings

\* The characters in use, in code-point order (Python compares strings by
\* code point).
Alphabet ==
  << " ", "-", ".", "0", "1", "2", "3", "4", "5", "6", "7", "8", "9",
     "A", "B", "C", "D", "E", "F", "G", "H", "I", "J", "K", "L", "M",
     "N", "O", "P", "Q", "R", "S", "T", "U", "V", "W", "X", "Y", "Z",
     "_",
     "a", "b", "c", "d", "e", "f", "g", "h", "i", "j", "k", "l", "m",
     "n", "o", "p", "q", "r", "s", "t", "u", "v", "w", "x", "y", "z" >>

Ord(c) == CHOOSE i \in 1..Len(Alphabet) : Alphabet[i] = c

\* s < t for Python strings.
RECURSIVE StrLess(_, _)
StrLess(s, t) ==
  IF s = <<>> THEN t # <<>>
  ELSE IF t = <<>> THEN FALSE
  ELSE IF s[1] # t[1] THEN Ord(s[1]) < Ord(t[1])
  ELSE StrLess(Tail(s), Tail(t))

\* sorted(S) for a set of distinct strings.
RECURSIVE SortedStrings(_)
SortedStrings(S) ==
  IF S = {} THEN <<>>
  ELSE LET m == CHOOSE x \in S : \A y \in S \ {x} : StrLess(x, y)
       IN  <<m>> \o SortedStrings(S \ {m})

\* s.split(sep) for a one-character separator.
RECURSIVE Split(_, _)
Split(s, sep) ==
  IF \A i \in 1..Len(s) : s[i] # sep THEN <<s>>
  ELSE LET i == CHOOSE k \in 1..Len(s) :
                  s[k] = sep /\ \A j \in 1..(k - 1) : s[j] # sep
       IN  <<SubSeq(s, 1, i - 1)>> \o Split(SubSeq(s, i + 1, Len(s)), sep)

\* s[:n]
Slice(s, n) == SubSeq(s, 1, IF n < Len(s) THEN n ELSE Len(s))

\* s.startswith(p)
StartsWith(s, p) == Len(p) <= Len(s) /\ SubSeq(s, 1, Len(p)) = p

\* s.endswith(p)
EndsWith(s, p) ==
  Len(p) <= Len(s) /\ SubSeq(s, Len(s) - Len(p) + 1, Len(s)) = p

Range(s) == {s[i] : i \in 1..Len(s)}

\* ------------------------------------------------------------------- cells

Num(n) == [num |-> n]
Text(s) == [str |-> s]
NaN == [nan |-> TRUE]

IsNum(c) == DOMAIN c = {"num"}
IsText(c) == DOMAIN c = {"str"}
IsNaN(c) == DOMAIN c = {"nan"}

Digits == <<"0", "1", "2", "3", "4", "5", "6", "7", "8", "9">>
IsDigit(c) == c \in Range(Digits)
DigitValue(c) == (CHOOSE i \in 1..10 : Digits[i] = c) - 1

RECURSIVE ParseDigits(_, _)
ParseDigits(s, acc) ==
  IF s = <<>> THEN acc
  ELSE ParseDigits(Tail(s), 10 * acc + DigitValue(s[1]))

\* pd.to_numeric(cell, errors="coerce"): a number stays, a text of decimal
\* digits is parsed, any other text and NaN become NaN.
ToNumeric(c) ==
  IF IsNum(c) THEN c
  ELSE IF IsText(c) /\ c.str # <<>> /\ \A i \in 1..Len(c.str) : IsDigit(c.str[i])
       THEN Num(ParseDigits(c.str, 0))
  ELSE NaN

\* ------------------------------------------------------------- identifiers

Categories == {"accessibility", "broken_links", "seo"}

\* The prefixes the script lists (lines 45, 47, 49) and the suffix it keeps
\* (line 29).
AccessibilityPrefix ==
  <<"a", "c", "c", "e", "s", "s", "i", "b", "i", "l", "i", "t", "y", "_", "r", "e", "p", "o", "r", "t", "_">>
BrokenLinksPrefix ==
  <<"b", "r", "o", "k", "e", "n", "_", "l", "i", "n", "k", "s", "_", "r", "e", "p", "o", "r", "t", "_">>
SeoPrefix == <<"s", "e", "o", "_", "r", "e", "p", "o", "r", "t", "_">>
CsvGz == <<".", "c", "s", "v", ".", "g", "z">>

PrefixOf(cat) ==
  CASE cat = "accessibility" -> AccessibilityPrefix
    [] cat = "broken_links" -> BrokenLinksPrefix
    [] cat = "seo" -> SeoPrefix

\* Dates embedded in identifiers that follow the naming convention
\* <prefix>YYYY-MM-DD.csv.gz.
Date0105 == <<"2", "0", "2", "4", "-", "0", "1", "-", "0", "5">>
Date0119 == <<"2", "0", "2", "4", "-", "0", "1", "-", "1", "9">>
Date0126 == <<"2", "0", "2", "4", "-", "0", "1", "-", "2", "6">>
Date0202 == <<"2", "0", "2", "4", "-", "0", "2", "-", "0", "2">>
Dates == {Date0105, Date0119, Date0202}

ConventionKey(cat, date) == PrefixOf(cat) \o date \o CsvGz

\* Identifiers the listing accepts (the prefix, the .csv.gz suffix) that do
\* not follow the convention: no date at all, and a further '_'-delimited
\* segment after a token too short for a month.
StemGarbage == <<"g", "a", "r", "b", "a", "g", "e">>
StemShort == <<"2", "0", "_", "x">>
MalformedStems == {StemGarbage, StemShort}

\* An object of the bucket the listing must not keep: not a .csv.gz.
PlainCsvKey(cat) == PrefixOf(cat) \o Date0202 \o <<".", "c", "s", "v">>

ConventionKeys(cat) == {ConventionKey(cat, d) : d \in Dates}
MalformedKeys(cat) == {PrefixOf(cat) \o st \o CsvGz : st \in MalformedStems}
KeyPool(cat) == ConventionKeys(cat) \cup MalformedKeys(cat) \cup {PlainCsvKey(cat)}

\* f follows its category's naming convention.
FollowsConvention(cat, f) == f \in {ConventionKey(cat, d) : d \in Dates \cup {Date0126}}

\* The date of an identifier that follows the convention, and its YYYY-MM.
DateOf(cat, f) ==
  CHOOSE d \in Dates \cup {Date0126} : f = ConventionKey(cat, d)
YearMonthOf(cat, f) == SubSeq(DateOf(cat, f), 1, 7)

\* ------------------------------------------------------- period resolution

\* The position of the date token among the '_'-delimited segments:
\* f.split("_")[2] for accessibility (line 85) and SEO (line 204),
\* f.split("_")[3] for broken links (line 166); Python counts from 0.
\* (A resolver that assumes one layout for every category.)
DateSegmentOneLayout(cat) == 3

DateSegment(cat) == IF cat = "broken_links" THEN 4 ELSE 3

\* f.split("_")[k] raises IndexError when f has fewer segments.
\* (A check that asks for one segment more.)
HasDateSegmentOneMore(cat, f) == Len(Split(f, "_")) > DateSegment(cat)

HasDateSegment(cat, f) == Len(Split(f, "_")) >= DateSegment(cat)

\* The token a file is grouped by: f.split("_")[2] (lines 85, 93, 204, 209),
\* f.split("_")[3].split(".")[0] for broken links (lines 166, 176).
MonthToken(cat, f) ==
  LET seg == Split(f, "_")[DateSegment(cat)]
  IN  IF cat = "broken_links" THEN Split(seg, ".")[1] ELSE seg

\* The period key of one file: the token's first seven characters.
MonthOf(cat, f) == Slice(MonthToken(cat, f), 7)

\* months = sorted(set([... for f in files]))
Months(cat, files) == SortedStrings({MonthOf(cat, f) : f \in Range(files)})

\* The files a month's sub-tab keeps (lines 93, 174-177, 209).
\* (A test that compares the year only.)
InMonthByYear(cat, f, month) == StartsWith(MonthToken(cat, f), Slice(month, 4))

InMonth(cat, f, month) == StartsWith(MonthToken(cat, f), month)

\* month_files = [f for f in files if <token>.startswith(month)]
MonthFiles(cat, files, month) ==
  SelectSeq(files, LAMBDA f : InMonth(cat, f, month))

\* ------------------------------------------------------------------ tables

\* A table (DataFrame) is its set of columns and its rows in order; a row
\* maps each modelled column to a cell.  pd.read_csv gives an empty table
\* for a file that holds only the header line.
AccessibilityColumns ==
  {"Impact", "Violation ID", "Description", "Recommendation", "URL",
   "Element", "Location"}
AccessibilityCells == {"Impact", "Violation ID", "URL"}

BrokenLinksColumns == {"URL"}
BrokenLinksCells == {"URL"}

\* The columns the SEO tab shows as raw data (lines 466-498).
SeoRawColumns ==
  {"Original Url", "Address", "Content Type", "Status Code", "Status",
   "Indexability", "Indexability Status", "Title 1", "Title 1 Length",
   "Title 1 Pixel Width", "Meta Description 1", "Meta Description 1 Length",
   "Meta Description 1 Pixel Width", "Meta Keywords 1",
   "Meta Keywords 1 Length", "H1-1", "H1-1 Length", "H1-2", "H1-2 Length",
   "H2-1", "H2-1 Length", "H2-2", "H2-2 Length", "Meta Robots 1",
   "X-Robots-Tag 1", "Meta Refresh 1", "Canonical Link Element 1"}
SeoColumns == SeoRawColumns \cup {"SEO Score"}
\* The SEO columns the script computes with.
SeoCells ==
  {"Original Url", "SEO Score", "Indexability Status", "Title 1",
   "Title 1 Length", "Meta Description 1", "Meta Description 1 Length",
   "H1-1", "H1-2", "Status Code"}

EmptyTable(cols) == [columns |-> cols, rows |-> <<>>]

RECURSIVE ConcatRows(_)
ConcatRows(tables) ==
  IF tables = <<>> THEN <<>>
  ELSE Head(tables).rows \o ConcatRows(Tail(tables))

\* (A concatenation that puts the later tables first.)
RECURSIVE ConcatRowsBackwards(_)
ConcatRowsBackwards(tables) ==
  IF tables = <<>> THEN <<>>
  ELSE ConcatRowsBackwards(Tail(tables)) \o Head(tables).rows
ConcatBackwards(tables) ==
  [columns |-> UNION {tables[i].columns : i \in 1..Len(tables)},
   rows |-> ConcatRowsBackwards(tables)]

\* pd.concat(tables): the rows of the tables one after the other, in the
\* order of the list, over the union of their columns.
Concat(tables) ==
  [columns |-> UNION {tables[i].columns : i \in 1..Len(tables)},
   rows |-> ConcatRows(tables)]

\* df.empty
IsEmpty(t) == t.rows = <<>> \/ t.columns = {}

\* df[mask]: the rows that satisfy P, in order.
Filter(rows, P(_)) == SelectSeq(rows, P)

\* len(df[mask])
Count(rows, P(_)) == Len(SelectSeq(rows, P))

\* ----------------------------------------------- accessibility: severities

Critical == <<"c", "r", "i", "t", "i", "c", "a", "l">>
Serious == <<"s", "e", "r", "i", "o", "u", "s">>
Moderate == <<"m", "o", "d", "e", "r", "a", "t", "e">>
Minor == <<"m", "i", "n", "o", "r">>

\* desired_order (line 104)
DesiredOrder == <<Critical, Serious, Moderate, Minor>>

\* combined_data[combined_data["Impact"] == impact_level] (line 128)
ImpactData(rows, level) == Filter(rows, LAMBDA r : r["Impact"] = Text(level))

\* (value_counts() without the reindex: only the levels that occur.)
ImpactCountsAsCounted(rows) ==
  SelectSeq([j \in 1..Len(DesiredOrder) |->
               [Impact |-> DesiredOrder[j],
                Count |-> Count(rows, LAMBDA r : r["Impact"] = Text(DesiredOrder[j]))]],
            LAMBDA e : e.Count > 0)

\* combined_data["Impact"].value_counts().reindex(desired_order, fill_value=0)
\* (lines 105-107): one entry per level of desired_order, in that order.
ImpactCounts(rows) ==
  [j \in 1..Len(DesiredOrder) |->
     [Impact |-> DesiredOrder[j],
      Count |-> Count(rows, LAMBDA r : r["Impact"] = Text(DesiredOrder[j]))]]

\* ------------------------------------------------------- SEO: score bands

\* bins and labels (lines 233-234)
Bins == <<0, 49, 69, 79, 89, 100>>
Labels ==
  <<"Very Bad (0-49)", "Bad (50-69)", "Average (70-79)", "Good (80-89)",
    "Very Good (90-100)">>

\* (pd.cut with right=False: bands closed on the left.)
CutLeftClosed(x) ==
  IF \E i \in 1..(Len(Bins) - 1) : Bins[i] <= x /\ x < Bins[i + 1]
    THEN CHOOSE i \in 1..(Len(Bins) - 1) : Bins[i] <= x /\ x < Bins[i + 1]
  ELSE 0

\* pd.cut(x, bins, right=True, include_lowest=True): the index of the band
\* (bins[i], bins[i+1]] that holds x, the first band also holding bins[0];
\* 0 when x is in no band.
Cut(x) ==
  IF x = Bins[1] THEN 1
  ELSE IF \E i \in 1..(Len(Bins) - 1) : Bins[i] < x /\ x <= Bins[i + 1]
       THEN CHOOSE i \in 1..(Len(Bins) - 1) : Bins[i] < x /\ x <= Bins[i + 1]
  ELSE 0

\* (A categorisation that clips the score to [0, 100] first.)
SeoCategoryClipped(score) ==
  IF IsNum(score)
    THEN [label |->
            Labels[Cut(IF score.num < Bins[1] THEN Bins[1]
                       ELSE IF score.num > Bins[Len(Bins)] THEN Bins[Len(Bins)]
                       ELSE score.num)]]
    ELSE NaN

\* The "SEO Category" cell of a numeric score: its label, NaN out of range.
SeoCategory(score) ==
  IF IsNum(score) /\ Cut(score.num) # 0
    THEN [label |-> Labels[Cut(score.num)]]
    ELSE NaN

\* Lines 229-230: the score coerced to a number, the rows left without one
\* dropped from combined_data.
CoerceScores(rows) ==
  [i \in 1..Len(rows) |->
     [rows[i] EXCEPT !["SEO Score"] = ToNumeric(rows[i]["SEO Score"])]]
DropNaScores(rows) == Filter(rows, LAMBDA r : ~IsNaN(r["SEO Score"]))

\* Line 235: the "SEO Category" column added to combined_data.
WithSeoCategory(rows) ==
  [i \in 1..Len(rows) |->
     [c \in DOMAIN rows[i] \cup {"SEO Category"} |->
        IF c = "SEO Category" THEN SeoCategory(rows[i]["SEO Score"])
        ELSE rows[i][c]]]

\* combined_data[combined_data["SEO Category"] == category] (line 272)
CategoryData(rows, label) ==
  Filter(rows, LAMBDA r : r["SEO Category"] = [label |-> label])

\* value_counts().reindex(labels, fill_value=0) (line 248)
SeoCategoryCounts(rows) ==
  [j \in 1..Len(Labels) |->
     [label |-> Labels[j], count |-> Len(CategoryData(rows, Labels[j]))]]

\* ------------------------------------------------ SEO: indexability status

StrNan == <<"n", "a", "n">>
StrUnknown == <<"U", "n", "k", "n", "o", "w", "n">>
StrMissing == <<"M", "i", "s", "s", "i", "n", "g">>

RECURSIVE NatToStr(_)
NatToStr(n) ==
  IF n < 10 THEN <<Digits[n + 1]>>
  ELSE NatToStr(n \div 10) \o <<Digits[(n % 10) + 1]>>

\* str(cell): NaN prints as "nan".
AsStr(c) ==
  IF IsText(c) THEN c.str
  ELSE IF IsNum(c)
       THEN (IF c.num < 0 THEN <<"-">> \o NatToStr(-c.num) ELSE NatToStr(c.num))
  ELSE StrNan

\* Line 285: .astype(str).fillna("Unknown"); after astype(str) no cell is
\* NaN, so fillna changes nothing.
IndexabilityAsStr(rows) ==
  [i \in 1..Len(rows) |->
     [rows[i] EXCEPT !["Indexability Status"] =
        Text(AsStr(rows[i]["Indexability Status"]))]]

\* (An exclusion of the absent values only.)
ExcludedStatusesAbsentOnly == {StrNan}

\* Line 286: the values kept out of the issue breakdown.
ExcludedStatuses == {StrNan, StrUnknown}

\* filtered_data (line 286)
FilteredData(rows) ==
  Filter(rows, LAMBDA r : r["Indexability Status"].str \notin ExcludedStatuses)

\* filtered_data[filtered_data["Indexability Status"] == issue] (line 314)
IssueData(filtered, issue) ==
  Filter(filtered, LAMBDA r : r["Indexability Status"] = Text(issue))

\* The order of the issue tabs: sorted(...) of the (issue, count) pairs
\* (line 304); the issues are distinct, so the pairs sort by issue.
IssueOrder(issues) == SortedStrings(issues)

\* canonicalization_issues (lines 287, 304): the (issue, count) pairs of
\* value_counts(), sorted.
CanonicalizationIssues(filtered) ==
  LET order == IssueOrder({r["Indexability Status"].str : r \in Range(filtered)})
  IN  [k \in 1..Len(order) |->
         <<order[k], Len(IssueData(filtered, order[k]))>>]

\* ------------------------------------------------- SEO: titles, lengths, H1

\* A comparison with NaN is False in pandas.
NumLess(c, n) == IsNum(c) /\ c.num < n
NumGreater(c, n) == IsNum(c) /\ c.num > n
NumEquals(c, n) == IsNum(c) /\ c.num = n

\* .fillna("").replace("", "Missing") (lines 325-326)
FillMissing(c) ==
  IF IsNaN(c) \/ c = Text(<<>>) THEN Text(StrMissing) ELSE c

MetaFilled(rows) ==
  [i \in 1..Len(rows) |->
     [rows[i] EXCEPT !["Title 1"] = FillMissing(rows[i]["Title 1"]),
                     !["Meta Description 1"] =
                        FillMissing(rows[i]["Meta Description 1"])]]

\* value_counts().reindex(["Present", "Missing"], fill_value=0)
\* (lines 327-330)
PresenceCounts(rows, col) ==
  [Present |-> Count(rows, LAMBDA r : r[col] # Text(StrMissing)),
   Missing |-> Count(rows, LAMBDA r : r[col] = Text(StrMissing))]

\* (A lower bound that counts 30 as short.)
IsTitleTooShortInclusive(r) ==
  NumLess(r["Title 1 Length"], 31) \/ NumEquals(r["Title 1 Length"], 0)

\* Lines 347-355.
IsTitleTooShort(r) ==
  NumLess(r["Title 1 Length"], 30) \/ NumEquals(r["Title 1 Length"], 0)
IsTitleTooLong(r) == NumGreater(r["Title 1 Length"], 60)
IsDescriptionTooShort(r) ==
  \/ NumLess(r["Meta Description 1 Length"], 50)
  \/ NumEquals(r["Meta Description 1 Length"], 0)
IsDescriptionTooLong(r) == NumGreater(r["Meta Description 1 Length"], 160)

\* Line 423: the status code coerced to a number.
CoerceStatus(rows) ==
  [i \in 1..Len(rows) |->
     [rows[i] EXCEPT !["Status Code"] = ToNumeric(rows[i]["Status Code"])]]

\* (between(300, 399, inclusive="neither"))
IsRedirectExclusive(c) == IsNum(c) /\ 300 < c.num /\ c.num < 399

\* Series.between(300, 399, inclusive="both"); NaN is in no range.
IsRedirect(c) == IsNum(c) /\ 300 <= c.num /\ c.num <= 399

\* non_redirected_data (lines 424-427): the rows outside the redirect
\* range, their H1-1 and H1-2 with NaN replaced by "".
FillEmpty(c) == IF IsNaN(c) THEN Text(<<>>) ELSE Text(AsStr(c))
NonRedirected(rows) ==
  LET kept == Filter(rows, LAMBDA r : ~IsRedirect(r["Status Code"]))
  IN  [i \in 1..Len(kept) |->
         [kept[i] EXCEPT !["H1-1"] = FillEmpty(kept[i]["H1-1"]),
                         !["H1-2"] = FillEmpty(kept[i]["H1-2"])]]

\* no_h1_pages and multiple_h1_pages (lines 429-432)
NoH1Pages(nonRedirected) ==
  Filter(nonRedirected, LAMBDA r : r["H1-1"] = Text(<<>>))
MultipleH1Pages(nonRedirected) ==
  Filter(nonRedirected,
         LAMBDA r : r["H1-1"] # Text(<<>>) /\ r["H1-2"] # Text(<<>>))

\* ------------------------------------------------ the sub-tab of one month

\* What one month's sub-tab shows.  outcome is how the pass over the month
\* ended: "rendered" (to its last line), "warning" (no data to show),
\* "stopped" (st.stop() after a missing-column warning), "error" (st.error
\* from the except clause of line 499) or "exception" (an exception nothing
\* catches, which ends the script run).  numbers maps each figure the
\* sub-tab states in words to its value.
NoNumbers == [x \in {} |-> 0]

\* The figure of lines 98-103 and 211-216.
TotalPages(seoTables) ==
  [x \in {"Total Pages Scanned"} |-> Len(Head(seoTables).rows)]

NoAccessibilityView ==
  [outcome |-> "exception", numbers |-> NoNumbers,
   impact_counts |-> <<>>, impact_data |-> <<>>, raw |-> <<>>]

\* Lines 125-155: the tabs of the four levels, then the raw data.
AccessibilityDetails(v, combined) ==
  IF /\ \E j \in 1..Len(v.impact_data) : v.impact_data[j] # <<>>
     /\ ~({"Violation ID", "Description", "Recommendation", "URL",
           "Element", "Location"} \subseteq combined.columns)
    THEN v                                      \* KeyError, lines 133-150
  ELSE [v EXCEPT !.outcome = "rendered", !.raw = combined.rows]

\* Lines 96-155, on the month's combined_data.
AccessibilityImpact(seoTables, combined) ==
  IF "Impact" \notin combined.columns
    THEN [NoAccessibilityView EXCEPT !.numbers = TotalPages(seoTables)]
                                                \* KeyError, line 105
  ELSE AccessibilityDetails(
         [NoAccessibilityView EXCEPT
            !.numbers = TotalPages(seoTables),
            !.impact_counts = ImpactCounts(combined.rows),
            !.impact_data = [j \in 1..Len(DesiredOrder) |->
                               ImpactData(combined.rows, DesiredOrder[j])]],
         combined)

\* Lines 88-155: the accessibility sub-tab of one month.  seoTables are the
\* tables of st.session_state.preloaded_seo_data in the order of its keys.
AccessibilityMonthView(seoTables, tables) ==
  IF seoTables = <<>> \/ "Original Url" \notin Head(seoTables).columns
    THEN NoAccessibilityView        \* IndexError or KeyError, lines 98-102
  ELSE AccessibilityImpact(seoTables, Concat(tables))

\* Lines 169-193: the broken-links sub-tab of one month.
ValidFiles(tables) == SelectSeq(tables, LAMBDA t : ~IsEmpty(t))

BrokenLinksShown(valid) ==
  IF valid = <<>>
    THEN [outcome |-> "warning", numbers |-> NoNumbers, raw |-> <<>>,
          text |-> "No valid Broken Links data available for this month."]
  ELSE [outcome |-> "rendered", numbers |-> NoNumbers,
        raw |-> Concat(valid).rows, text |-> "Raw Data"]

BrokenLinksMonthView(tables) ==
  IF tables = <<>>
    THEN [outcome |-> "warning", numbers |-> NoNumbers, raw |-> <<>>,
          text |-> "No Broken Links data available for this month."]
  ELSE BrokenLinksShown(ValidFiles(tables))

\* expected_columns (line 223) and required_cols (line 417)
ExpectedColumns == <<"SEO Score", "Title 1 Length", "Meta Description 1 Length">>
RequiredCols == <<"H1-1", "H1-2", "Status Code">>

\* The columns of wanted that cols lacks; the first of them is warned
\* about, and st.stop() follows.
MissingColumn(wanted, cols) ==
  SelectSeq(wanted, LAMBDA c : c \notin cols)

NoSeoView ==
  [outcome |-> "exception", warnings |-> <<>>, sections |-> <<>>,
   numbers |-> NoNumbers, aggregated |-> <<>>, combined |-> <<>>,
   seo_category_counts |-> <<>>, category_data |-> <<>>,
   filtered_data |-> <<>>, canonicalization_issues |-> <<>>,
   issue_data |-> <<>>,
   meta_title_counts |-> <<>>, meta_desc_counts |-> <<>>,
   title_too_short |-> <<>>, title_too_long |-> <<>>,
   description_too_short |-> <<>>, description_too_long |-> <<>>,
   non_redirected_data |-> <<>>, no_h1_pages |-> <<>>,
   multiple_h1_pages |-> <<>>, raw |-> <<>>]

\* A section that showed its tables: they name "Original Url", and the
\* KeyError of a table without it reaches the except clause.
Shown(w, some, cols, section) ==
  IF some /\ "Original Url" \notin cols
    THEN [w EXCEPT !.outcome = "error"]
  ELSE [w EXCEPT !.sections = Append(w.sections, section)]

AnyRows(seqOfRows) == \E j \in 1..Len(seqOfRows) : seqOfRows[j] # <<>>

\* Lines 229-282: the score analysis; d is combined_data after lines
\* 229-235.
SeoScoreShown(v, cols, d) ==
  Shown([v EXCEPT !.outcome = "rendered",
                  !.combined = d,
                  !.seo_category_counts = SeoCategoryCounts(d),
                  !.category_data = [j \in 1..Len(Labels) |->
                                       CategoryData(d, Labels[j])]],
        \E r \in Range(d) : r["SEO Category"] # NaN, cols,
        "SEO Score Analysis")

SeoScoreSection(v, cols) ==
  SeoScoreShown(v, cols,
                WithSeoCategory(DropNaScores(CoerceScores(v.combined))))

\* Lines 283-322: the indexability breakdown; d is combined_data after
\* line 285.
SeoStatusShown(v, cols, d, filtered, issues) ==
  Shown([v EXCEPT !.combined = d,
                  !.filtered_data = filtered,
                  !.canonicalization_issues = issues,
                  !.issue_data = [k \in 1..Len(issues) |->
                                    IssueData(filtered, issues[k][1])]],
        issues # <<>>, cols, "HTTP Status Codes Issues")

SeoStatusFiltered(v, cols, d, filtered) ==
  SeoStatusShown(v, cols, d, filtered, CanonicalizationIssues(filtered))

SeoStatusCoerced(v, cols, d) == SeoStatusFiltered(v, cols, d, FilteredData(d))

SeoStatusSection(v, cols) ==
  IF "Indexability Status" \notin cols
    THEN [v EXCEPT !.outcome = "error"]              \* KeyError, line 285
  ELSE SeoStatusCoerced(v, cols, IndexabilityAsStr(v.combined))

\* Lines 323-404: title and description presence and length; d is
\* combined_data after lines 325-326.
SeoMetaNumbers(w) ==
  [w EXCEPT !.numbers =
     w.numbers
       @@ ("Too Short Titles" :> Len(w.title_too_short))
       @@ ("Too Long Titles" :> Len(w.title_too_long))
       @@ ("Too Short Descriptions" :> Len(w.description_too_short))
       @@ ("Too Long Descriptions" :> Len(w.description_too_long))]

SeoMetaShown(v, cols, d) ==
  Shown(SeoMetaNumbers(
          [v EXCEPT
             !.combined = d,
             !.meta_title_counts = PresenceCounts(d, "Title 1"),
             !.meta_desc_counts = PresenceCounts(d, "Meta Description 1"),
             !.title_too_short = Filter(d, IsTitleTooShort),
             !.title_too_long = Filter(d, IsTitleTooLong),
             !.description_too_short = Filter(d, IsDescriptionTooShort),
             !.description_too_long = Filter(d, IsDescriptionTooLong)]),
        \E r \in Range(d) :
           \/ IsTitleTooShort(r) \/ IsTitleTooLong(r)
           \/ IsDescriptionTooShort(r) \/ IsDescriptionTooLong(r),
        cols, "Meta Data Analysis")

SeoMetaSection(v, cols) ==
  IF ~({"Title 1", "Meta Description 1"} \subseteq cols)
    THEN [v EXCEPT !.outcome = "error"]              \* KeyError, lines 325-326
  ELSE SeoMetaShown(v, cols, MetaFilled(v.combined))

\* Lines 405-463: the H1 overview; d is combined_data after line 423, kept
\* is non_redirected_data.
SeoH1Numbers(w) ==
  [w EXCEPT !.numbers =
     w.numbers
       @@ ("Pages Missing an H1" :> Len(w.no_h1_pages))
       @@ ("Pages with Multiple H1s" :> Len(w.multiple_h1_pages))]

SeoH1Shown(v, cols, d, kept) ==
  Shown(SeoH1Numbers([v EXCEPT !.combined = d,
                               !.non_redirected_data = kept,
                               !.no_h1_pages = NoH1Pages(kept),
                               !.multiple_h1_pages = MultipleH1Pages(kept)]),
        \E r \in Range(kept) : r["H1-1"] = Text(<<>>) \/ r["H1-2"] # Text(<<>>),
        cols, "H1 Tag Issues Overview")

SeoH1Coerced(v, cols, d) == SeoH1Shown(v, cols, d, NonRedirected(d))

SeoH1Section(v, cols) ==
  IF MissingColumn(RequiredCols, cols) # <<>>
    THEN [v EXCEPT !.outcome = "stopped",
                   !.warnings = <<Head(MissingColumn(RequiredCols, cols))>>]
  ELSE SeoH1Coerced(v, cols, CoerceStatus(v.combined))

\* Lines 465-498: the raw table.
SeoRawSection(v, cols) ==
  IF ~(SeoRawColumns \subseteq cols)
    THEN [v EXCEPT !.outcome = "error"]              \* KeyError, line 467
  ELSE [v EXCEPT !.raw = v.combined,
                 !.sections = Append(v.sections, "Raw Metadata Data")]

\* The next section of the try block, unless the pass has ended.
Then(v, cols, Section(_, _)) ==
  IF v.outcome = "rendered" THEN Section(v, cols) ELSE v

\* Lines 219-498: the try block, on the month's combined_data.
SeoSections(v, combined) ==
  IF MissingColumn(ExpectedColumns, combined.columns) # <<>>
    THEN [v EXCEPT
            !.outcome = "stopped",
            !.aggregated = combined.rows,
            !.combined = combined.rows,
            !.warnings =
               <<Head(MissingColumn(ExpectedColumns, combined.columns))>>]
  ELSE Then(Then(Then(Then(
         SeoScoreSection([v EXCEPT !.aggregated = combined.rows,
                                   !.combined = combined.rows],
                         combined.columns),
         combined.columns, SeoStatusSection),
         combined.columns, SeoMetaSection),
         combined.columns, SeoH1Section),
         combined.columns, SeoRawSection)

\* Lines 207-502: the SEO sub-tab of one month.  seoTables are the tables
\* of st.session_state.preloaded_seo_data in the order of its keys, tables
\* those of the month's valid_files.  aggregated keeps the concatenation as
\* line 220 built it, combined is combined_data as the pass left it.
SeoMonthView(seoTables, tables) ==
  IF seoTables = <<>> \/ "Original Url" \notin Head(seoTables).columns
    THEN NoSeoView                     \* IndexError or KeyError, lines 211-215
  ELSE IF tables = <<>>
    THEN [NoSeoView EXCEPT !.numbers = TotalPages(seoTables),
                           !.outcome = "warning"]    \* line 502
  ELSE SeoSections([NoSeoView EXCEPT !.numbers = TotalPages(seoTables)],
                   Concat(tables))

\* ------------------------------------------------------- the stored reports

SeqsUpTo(S, n) == UNION {[1..k -> S] : k \in 0..n}
SubsetsUpTo(S, n) == {K \in SUBSET S : Cardinality(K) <= n}

\* Rows of an accessibility report: the four severities, a value that is
\* none of them, and an empty field.
ImpactCells ==
  {Text(Critical), Text(Serious), Text(Moderate), Text(Minor),
   Text(<<"i", "n", "f", "o">>), NaN}
AccessibilityRow(impact) ==
  [c \in AccessibilityCells |->
     CASE c = "Impact" -> impact
       [] c = "Violation ID" -> Text(<<"v", "1">>)
       [] c = "URL" -> Text(<<"u">>)]
AccessibilityRows == {AccessibilityRow(i) : i \in ImpactCells}

\* Rows of a broken-links report.
BrokenLinksRows ==
  {[c \in BrokenLinksCells |-> Text(u)] : u \in {<<"a">>, <<"b">>}}

\* An unremarkable row of an SEO report.
BaseSeoRow ==
  [c \in SeoCells |->
     CASE c = "Original Url" -> Text(<<"u">>)
       [] c = "SEO Score" -> Num(75)
       [] c = "Indexability Status" -> NaN
       [] c = "Title 1" -> Text(<<"T">>)
       [] c = "Title 1 Length" -> Num(40)
       [] c = "Meta Description 1" -> Text(<<"D">>)
       [] c = "Meta Description 1 Length" -> Num(100)
       [] c = "H1-1" -> Text(<<"H">>)
       [] c = "H1-2" -> NaN
       [] c = "Status Code" -> Num(200)]

\* Scores at and around every band boundary, out of range, missing, not a
\* number, and a number written as text.
ScoreCells ==
  {Num(n) : n \in {-1, 0, 49, 50, 69, 70, 79, 80, 89, 90, 100, 101}}
    \cup {NaN, Text(<<"n", "-", "a">>), Text(<<"8", "5">>)}
ScoreRows == {[BaseSeoRow EXCEPT !["SEO Score"] = c] : c \in ScoreCells}

\* Title and description lengths at and around the thresholds.
LengthRows ==
  {[BaseSeoRow EXCEPT !["Title 1 Length"] = c] :
     c \in {Num(n) : n \in {0, 29, 30, 60, 61}} \cup {NaN}}
    \cup {[BaseSeoRow EXCEPT !["Meta Description 1 Length"] = Num(n),
                             !["SEO Score"] = s] :
            n \in {0, 49, 50, 160, 161}, s \in {Num(75)}}

\* Status codes at and around the redirect range on pages without an H1,
\* and pages with one H1 and with two inside and outside the range.
StatusCells == {Num(n) : n \in {299, 300, 399, 400}} \cup {NaN}
HeadingPairs ==
  {<<Text(<<"H">>), NaN>>, <<Text(<<"H">>), Text(<<"H">>)>>}
HeadingRows ==
  {[BaseSeoRow EXCEPT !["Status Code"] = c, !["H1-1"] = NaN] :
     c \in StatusCells}
    \cup {[BaseSeoRow EXCEPT !["Status Code"] = c,
                             !["H1-1"] = h[1], !["H1-2"] = h[2]] :
            c \in {Num(300), Num(400)}, h \in HeadingPairs}

\* Indexability statuses: absent, the two spellings of unknown, and values
\* the crawler reports.
StatusValues ==
  {NaN, Text(StrUnknown), Text(<<"u", "n", "k", "n", "o", "w", "n">>),
   Text(<<"R", "e", "d", "i", "r", "e", "c", "t", "e", "d">>), Text(<<"C", "a", "n", "o", "n", "i", "c", "a", "l", "i", "s", "e", "d">>),
   Text(<<"N", "o", "i", "n", "d", "e", "x">>)}
IndexabilityRows ==
  {[BaseSeoRow EXCEPT !["Indexability Status"] = c] : c \in StatusValues}

DefaultTable(cat) ==
  CASE cat = "accessibility" ->
         [columns |-> AccessibilityColumns,
          rows |-> <<AccessibilityRow(Text(Serious))>>]
    [] cat = "broken_links" ->
         [columns |-> BrokenLinksColumns,
          rows |-> <<[c \in BrokenLinksCells |-> Text(<<"a">>)]>>]
    [] cat = "seo" -> [columns |-> SeoColumns, rows |-> <<BaseSeoRow>>]

\* One report of a category, following the convention, with its default
\* table.
DefaultReport(cat) == ConventionKey(cat, Date0105) :> DefaultTable(cat)

\* A bucket that holds nothing.
NoObjects == [k \in {} |-> EmptyTable({})]

Others(cat) == Categories \ {cat}
RECURSIVE DefaultReports(_)
DefaultReports(cats) ==
  IF cats = {} THEN NoObjects
  ELSE LET c == CHOOSE c \in cats : TRUE
       IN  DefaultReport(c) @@ DefaultReports(cats \ {c})

\* Buckets whose identifiers vary: one category holds up to MaxFiles objects
\* of its pool.
IdentifierBuckets ==
  UNION {{[k \in K |-> DefaultTable(cat)] @@ DefaultReports(Others(cat)) :
            K \in SubsetsUpTo(KeyPool(cat), MaxFiles)} : cat \in Categories}

\* Two reports of one month whose tables hold up to MaxRows rows together.
TwoTables(cat, cols, rows) ==
  {(ConventionKey(cat, Date0105) :> [columns |-> cols, rows |-> p[1]])
     @@ (ConventionKey(cat, Date0119) :> [columns |-> cols, rows |-> p[2]])
     @@ DefaultReports(Others(cat)) :
     p \in {<<SubSeq(x[1], 1, x[2]), SubSeq(x[1], x[2] + 1, Len(x[1]))>> :
              x \in {y \in SeqsUpTo(rows, MaxRows) \X (0..MaxRows) :
                       y[2] <= Len(y[1])}}}

\* Three broken-links reports of one month, any of them empty.
ThreeTables(cat, cols, rows) ==
  {(ConventionKey(cat, Date0105) :> [columns |-> cols, rows |-> p[1]])
     @@ (ConventionKey(cat, Date0119) :> [columns |-> cols, rows |-> p[2]])
     @@ (ConventionKey(cat, Date0126) :> [columns |-> cols, rows |-> p[3]])
     @@ DefaultReports(Others(cat)) :
     p \in {<<SubSeq(x[1], 1, x[2]), SubSeq(x[1], x[2] + 1, x[3]),
               SubSeq(x[1], x[3] + 1, Len(x[1]))>> :
              x \in {y \in SeqsUpTo(rows, MaxRows) \X (0..MaxRows)
                             \X (0..MaxRows) :
                       y[2] <= y[3] /\ y[3] <= Len(y[1])}}}

\* The columns a report may lack: any one the script reads, or two that
\* the same check looks for.
LackedColumns ==
  {{c} : c \in SeoCells \cup {"Address"}}
    \cup {{"SEO Score", "Title 1 Length"}, {"H1-2", "Status Code"}}

\* An SEO report of January that lacks columns, and a complete one of
\* February.
SchemaBuckets ==
  {(ConventionKey("seo", Date0105) :>
       [columns |-> SeoColumns \ lacked, rows |-> <<BaseSeoRow>>])
     @@ (ConventionKey("seo", Date0202) :> DefaultTable("seo"))
     @@ DefaultReports(Others("seo")) :
     lacked \in LackedColumns}

\* ---------------------------------------------------------------- the state

VARIABLES
  bucket,    \* the objects of the S3 bucket: key -> table
  session,   \* st.session_state
  pc,        \* where the script run stands
  view       \* what the run has rendered so far

vars == <<bucket, session, pc, view>>

\* A key of st.session_state that is not set, and one that is.
None == <<>>
Some(x) == <<x>>

\* st.session_state before the first run:
\*   lists[cat]      st.session_state[prefix], the listing list_s3_files keeps
\*   files[cat]      st.session_state.<cat>_files
\*   cache           st.session_state[file_key], the tables read_s3_csv_gzip
\*                   keeps, a function of the keys read so far
\*   preloaded[cat]  the keys of st.session_state.preloaded_<cat>_data in
\*                   insertion order; its values are the cached tables
NewSession ==
  [lists |-> [c \in Categories |-> None],
   files |-> [c \in Categories |-> None],
   cache |-> NoObjects,
   preloaded |-> [c \in Categories |-> None]]

\* Nothing rendered: no tab has been reached.
NoTab == [state |-> "none", months |-> <<>>, month_files |-> <<>>, tabs |-> <<>>]
NoView == [c \in Categories |-> NoTab]

Init ==
  /\ \/ bucket \in IdentifierBuckets
     \/ bucket \in TwoTables("accessibility", AccessibilityColumns,
                             AccessibilityRows)
     \/ bucket \in ThreeTables("broken_links", BrokenLinksColumns,
                               BrokenLinksRows)
     \/ bucket \in TwoTables("seo", SeoColumns, ScoreRows)
     \/ bucket \in TwoTables("seo", SeoColumns, LengthRows)
     \/ bucket \in TwoTables("seo", SeoColumns, HeadingRows)
     \/ bucket \in TwoTables("seo", SeoColumns, IndexabilityRows)
     \/ bucket \in SchemaBuckets
  /\ session = NewSession
  /\ pc = "lists"
  /\ view = NoView

\* The order in which the script handles the categories (lines 44-49,
\* 57-66).
CategoryOrder == <<"accessibility", "broken_links", "seo">>

\* list_objects_v2(Prefix=prefix) filtered to .csv.gz (lines 25-30); S3
\* lists keys in ascending order.
ListedKeys(cat) ==
  SortedStrings({k \in DOMAIN bucket :
                   StartsWith(k, PrefixOf(cat)) /\ EndsWith(k, CsvGz)})

\* list_s3_files(prefix) (lines 21-31): the cached listing when there is
\* one.
ListS3Files(s, cat) ==
  IF s.lists[cat] # None THEN s
  ELSE [s EXCEPT !.lists[cat] = Some(ListedKeys(cat))]

\* Lines 44-49 for one category.
FetchFileList(s, cat) ==
  IF s.files[cat] # None THEN s
  ELSE LET t == ListS3Files(s, cat)
       IN  [t EXCEPT !.files[cat] =
              Some(SortedStrings(Range(t.lists[cat][1])))]

\* Lines 44-49 while S3 answers n listings: the categories in order, each
\* listing that the session does not hold being one call; the call that S3
\* does not answer raises, and what the session was given before stays.
RECURSIVE FetchSome(_, _, _)
FetchSome(s, cats, n) ==
  IF cats = <<>> THEN [session |-> s, ok |-> TRUE]
  ELSE IF s.files[Head(cats)] # None \/ s.lists[Head(cats)] # None
    THEN FetchSome(FetchFileList(s, Head(cats)), Tail(cats), n)
  ELSE IF n = 0 THEN [session |-> s, ok |-> FALSE]
  ELSE FetchSome(FetchFileList(s, Head(cats)), Tail(cats), n - 1)

\* The categories whose listing the session does not hold: the listings a
\* run asks S3 for.
Unlisted(s) ==
  {c \in Categories : s.files[c] = None /\ s.lists[c] = None}

\* Lines 43-54 when S3 answers every listing.
FetchFileLists ==
  /\ pc = "lists"
  /\ session' = FetchSome(session, CategoryOrder, Len(CategoryOrder)).session
  /\ pc' = "preload"
  /\ UNCHANGED <<bucket, view>>

\* Lines 43-54 when S3 answers n listings and fails at the next: the
\* exception ends the run.
FetchFileListsInterrupted ==
  /\ pc = "lists"
  /\ \E n \in 0..Cardinality(Unlisted(session)) - 1 :
       LET r == FetchSome(session, CategoryOrder, n)
       IN  /\ ~r.ok
           /\ session' = r.session
           /\ pc' = "aborted"
  /\ UNCHANGED <<bucket, view>>

\* (A read that asks S3 whether or not the session holds the key.)
ReadS3CsvGzipAfresh(cache, f) ==
  [k \in DOMAIN cache \cup {f} |-> IF k = f THEN bucket[f] ELSE cache[k]]

\* read_s3_csv_gzip(file_key) (lines 34-41): the cached table when there is
\* one, else the object's table, which the session then keeps.
ReadS3CsvGzip(cache, f) ==
  IF f \in DOMAIN cache THEN cache ELSE cache @@ (f :> bucket[f])

\* The reads of one category's files while S3 answers n of them: a read of
\* a cached key calls nothing; the read that S3 does not answer raises, and
\* the tables cached before it stay in the session.
RECURSIVE ReadSome(_, _, _)
ReadSome(cache, files, n) ==
  IF files = <<>> THEN [cache |-> cache, left |-> n, ok |-> TRUE]
  ELSE IF Head(files) \in DOMAIN cache
    THEN ReadSome(ReadS3CsvGzip(cache, Head(files)), Tail(files), n)
  ELSE IF n = 0 THEN [cache |-> cache, left |-> 0, ok |-> FALSE]
  ELSE ReadSome(ReadS3CsvGzip(cache, Head(files)), Tail(files), n - 1)

\* Lines 57-66 for one category, r being the outcome of its reads: the
\* dictionary is stored when every read has returned.
PreloadCategory(s, cat, r) ==
  IF r.ok THEN [s EXCEPT !.cache = r.cache,
                         !.preloaded[cat] = Some(s.files[cat][1])]
  ELSE [s EXCEPT !.cache = r.cache]

RECURSIVE PreloadSome(_, _, _)
PreloadAfter(s, cats, r) ==
  IF r.ok
    THEN PreloadSome(PreloadCategory(s, Head(cats), r), Tail(cats), r.left)
  ELSE [session |-> PreloadCategory(s, Head(cats), r), ok |-> FALSE]

PreloadSome(s, cats, n) ==
  IF cats = <<>> THEN [session |-> s, ok |-> TRUE]
  ELSE IF s.preloaded[Head(cats)] # None THEN PreloadSome(s, Tail(cats), n)
  ELSE PreloadAfter(s, cats, ReadSome(s.cache, s.files[Head(cats)][1], n))

\* Lines 56-71 when S3 answers every read.
Preload ==
  /\ pc = "preload"
  /\ session' = PreloadSome(session, CategoryOrder,
                            Cardinality(DOMAIN bucket)).session
  /\ pc' = "accessibility"
  /\ UNCHANGED <<bucket, view>>

\* Lines 56-71 when S3 answers n reads and fails at the next: the exception
\* ends the run.
PreloadInterrupted ==
  /\ pc = "preload"
  /\ \E n \in 0..Cardinality(DOMAIN bucket \ DOMAIN session.cache) - 1 :
       LET r == PreloadSome(session, CategoryOrder, n)
       IN  /\ ~r.ok
           /\ session' = r.session
           /\ pc' = "aborted"
  /\ UNCHANGED <<bucket, view>>

\* preloaded_<cat>_data[f] for each f of files.
TablesOf(files) == [i \in 1..Len(files) |-> session.cache[files[i]]]

\* The tables of st.session_state.preloaded_seo_data in the order of its
\* keys.
PreloadedSeoTables == TablesOf(session.preloaded["seo"][1])

\* (A run that st.stop() does not end: only an exception does.)
RECURSIVE UntilException(_)
UntilException(views) ==
  IF views = <<>> THEN <<>>
  ELSE IF Head(views).outcome = "exception" THEN <<Head(views)>>
  ELSE <<Head(views)>> \o UntilException(Tail(views))

\* The sub-tabs a tab renders: one after the other, up to and including the
\* first that ends the script run.
RECURSIVE UntilHalt(_)
UntilHalt(views) ==
  IF views = <<>> THEN <<>>
  ELSE IF Head(views).outcome \in {"exception", "stopped"} THEN <<Head(views)>>
  ELSE <<Head(views)>> \o UntilHalt(Tail(views))

Halted(tabs) ==
  tabs # <<>> /\ tabs[Len(tabs)].outcome \in {"exception", "stopped"}

\* What a tab renders: months are its sub-tabs' names, month_files the files
\* of each sub-tab it reached, tabs what each of them shows.
TabRendered(months, groups, tabs) ==
  [state |-> "tabs", months |-> months,
   month_files |-> SubSeq(groups, 1, Len(tabs)), tabs |-> tabs]

TabOfGroups(months, groups, MonthView(_)) ==
  TabRendered(months, groups,
              UntilHalt([i \in 1..Len(months) |-> MonthView(groups[i])]))

TabOfMonths(cat, files, months, MonthView(_)) ==
  TabOfGroups(months,
              [i \in 1..Len(months) |-> MonthFiles(cat, files, months[i])],
              MonthView)

\* The tab of a category over its files, MonthView(month_files) being the
\* sub-tab of one month.
Tab(cat, files, MonthView(_)) ==
  IF files = <<>>
    THEN [state |-> "warning", months |-> <<>>, month_files |-> <<>>,
          tabs |-> <<>>]
  ELSE IF \E f \in Range(files) : ~HasDateSegment(cat, f)
    THEN [state |-> "exception", months |-> <<>>, month_files |-> <<>>,
          tabs |-> <<>>]                                      \* IndexError
  ELSE TabOfMonths(cat, files, Months(cat, files), MonthView)

\* Where the run stands after a tab.
After(tab, next) ==
  IF tab.state = "exception" THEN "aborted"
  ELSE IF ~Halted(tab.tabs) THEN next
  ELSE IF tab.tabs[Len(tab.tabs)].outcome = "stopped" THEN "stopped"
  ELSE "aborted"

\* Lines 78-155.
AccessibilityTab ==
  /\ pc = "accessibility"
  /\ LET tab == Tab("accessibility", session.files["accessibility"][1],
                    LAMBDA mf : AccessibilityMonthView(PreloadedSeoTables,
                                                       TablesOf(mf)))
     IN  /\ view' = [view EXCEPT !["accessibility"] = tab]
         /\ pc' = After(tab, "broken_links")
  /\ UNCHANGED <<bucket, session>>

\* Lines 158-193.
BrokenLinksTab ==
  /\ pc = "broken_links"
  /\ LET tab == Tab("broken_links", session.files["broken_links"][1],
                    LAMBDA mf : BrokenLinksMonthView(TablesOf(mf)))
     IN  /\ view' = [view EXCEPT !["broken_links"] = tab]
         /\ pc' = After(tab, "seo")
  /\ UNCHANGED <<bucket, session>>

\* (A concatenation that hands back its only table instead of a copy.)
ConcatSharesTheOnlyTable(files) ==
  IF Len(files) = 1 THEN {files[1]} ELSE {}

\* The cached tables whose data combined_data shares after line 220:
\* pd.concat builds a new frame, so none.
ConcatShares(files) == {}

\* A table after the in-place edits of lines 229-235, 285, 325-326 and 423
\* have reached it: the rows the edits left, the columns they added.
EditedInPlace(table, rows) ==
  [columns |-> table.columns \cup UNION {DOMAIN rows[a] : a \in 1..Len(rows)},
   rows |-> rows]

\* st.session_state's tables after the SEO tab: the edits of each sub-tab
\* act on its combined_data and on whatever shares its data.
AfterEdits(cache, tab) ==
  [f \in DOMAIN cache |->
     IF \E i \in 1..Len(tab.tabs) : f \in ConcatShares(tab.month_files[i])
       THEN EditedInPlace(
              cache[f],
              tab.tabs[CHOOSE i \in 1..Len(tab.tabs) :
                         f \in ConcatShares(tab.month_files[i])].combined)
     ELSE cache[f]]

\* Lines 197-502.
SeoTab ==
  /\ pc = "seo"
  /\ LET tab == Tab("seo", session.files["seo"][1],
                    LAMBDA mf : SeoMonthView(PreloadedSeoTables, TablesOf(mf)))
     IN  /\ view' = [view EXCEPT !["seo"] = tab]
         /\ pc' = After(tab, "done")
         /\ session' = [session EXCEPT !.cache = AfterEdits(session.cache, tab)]
  /\ UNCHANGED bucket

\* A user interaction (or a reload after an error) runs the script again
\* from its first line; st.session_state is kept, the page is drawn anew.
Rerun ==
  /\ pc \in {"done", "stopped", "aborted"}
  /\ pc' = "lists"
  /\ view' = NoView
  /\ UNCHANGED <<bucket, session>>

\* The bucket is not the script's: its objects can be written anew between
\* two runs.  Modelled where a later read could tell: after a run that a
\* failed read ended with part of the tables cached, every report is
\* replaced by one of the same columns and no rows.
Overwritten ==
  /\ pc = "aborted"
  /\ session.cache # NoObjects
  /\ \E c \in Categories : session.files[c] # None /\ session.preloaded[c] = None
  /\ \E k \in DOMAIN bucket : bucket[k].rows # <<>>
  /\ bucket' = [k \in DOMAIN bucket |-> EmptyTable(bucket[k].columns)]
  /\ UNCHANGED <<session, pc, view>>

\* A run of the script when S3 answers every call and the bucket stays as
\* it is.
Next ==
  \/ FetchFileLists
  \/ Preload
  \/ AccessibilityTab
  \/ BrokenLinksTab
  \/ SeoTab
  \/ Rerun

Spec == Init /\ [][Next]_vars

\* The same with a storage that may fail at any call and whose objects may
\* be written anew.
NextStorage ==
  \/ FetchFileLists
  \/ FetchFileListsInterrupted
  \/ Preload
  \/ PreloadInterrupted
  \/ AccessibilityTab
  \/ BrokenLinksTab
  \/ SeoTab
  \/ Rerun
  \/ Overwritten

SpecStorage == Init /\ [][NextStorage]_vars

\* ------------------------------------------------------------------ claims

\* The sub-tabs a tab has rendered, and the files and tables of each.
SubTabs(cat) == 1..Len(view[cat].tabs)
FilesOf(cat) == session.files[cat][1]
MonthTables(cat, i) == TablesOf(view[cat].month_files[i])

RECURSIVE SumOf(_, _)
SumOf(f, n) == IF n = 0 THEN 0 ELSE f[n] + SumOf(f, n - 1)

\* A score cell that holds a number of [0, 100], and that number.
ScoreValue(c) == ToNumeric(c).num
ValidScore(c) ==
  IsNum(ToNumeric(c)) /\ 0 <= ScoreValue(c) /\ ScoreValue(c) <= 100

\* The five bands as the specification states them.
BandOf(n) ==
  IF n <= 49 THEN 1 ELSE IF n <= 69 THEN 2 ELSE IF n <= 79 THEN 3
  ELSE IF n <= 89 THEN 4 ELSE 5

InBand(r, j) ==
  ValidScore(r["SEO Score"]) /\ BandOf(ScoreValue(r["SEO Score"])) = j

ScoreAnalysed(v) == v.seo_category_counts # <<>>

\* C1: SEO-score bucketing is a total partition.  In every SEO sub-tab that
\* shows the score analysis, the count of each of the five bands (0-49,
\* 50-69, 70-79, 80-89, 90-100, in that order) is the number of rows of the
\* aggregated table whose score is a number of that band, so the counts sum
\* to the number of rows with a valid score in [0,100]; the member rows of
\* a band are as many as its count, all of that band, and no row is a
\* member of two bands; 49 is Very Bad, 50 is Bad, 100 is Very Good.
C1_ScoreBandsPartition ==
  \A i \in SubTabs("seo") :
    LET v == view["seo"].tabs[i]
        counts == [j \in 1..5 |-> v.seo_category_counts[j].count]
    IN  ScoreAnalysed(v) =>
          /\ Len(v.seo_category_counts) = 5
          /\ \A j \in 1..5 :
               /\ counts[j] = Count(v.aggregated, LAMBDA r : InBand(r, j))
               /\ Len(v.category_data[j]) = counts[j]
               /\ \A r \in Range(v.category_data[j]) : InBand(r, j)
               /\ \A k \in 1..5 :
                    k # j => Range(v.category_data[j])
                               \cap Range(v.category_data[k]) = {}
          /\ SumOf(counts, 5)
               = Count(v.aggregated, LAMBDA r : ValidScore(r["SEO Score"]))
          /\ [j \in 1..5 |-> v.seo_category_counts[j].label]
               = <<"Very Bad (0-49)", "Bad (50-69)", "Average (70-79)",
                   "Good (80-89)", "Very Good (90-100)">>
          /\ \A r \in Range(v.combined) :
               /\ r["SEO Score"] = Num(49)
                    => r["SEO Category"] = [label |-> "Very Bad (0-49)"]
               /\ r["SEO Score"] = Num(50)
                    => r["SEO Category"] = [label |-> "Bad (50-69)"]
               /\ r["SEO Score"] = Num(100)
                    => r["SEO Category"] = [label |-> "Very Good (90-100)"]

\* A sub-tab whose aggregated table holds the scores 49 and 100 and counts
\* one Very Bad and one Very Good page.
C1_Witness ==
  \E i \in SubTabs("seo") :
    LET v == view["seo"].tabs[i]
    IN  /\ ScoreAnalysed(v)
        /\ {r["SEO Score"] : r \in Range(v.aggregated)} = {Num(49), Num(100)}
        /\ v.seo_category_counts[1].count = 1
        /\ v.seo_category_counts[5].count = 1

\* The rows of result are those of the tables, table after table, each
\* table's rows in their order.
RECURSIVE Offset(_, _)
Offset(tables, a) ==
  IF a = 1 THEN 0 ELSE Offset(tables, a - 1) + Len(tables[a - 1].rows)

IsConcatenationOf(result, tables) ==
  /\ Len(result) = Offset(tables, Len(tables) + 1)
  /\ \A a \in 1..Len(tables) :
       \A b \in 1..Len(tables[a].rows) :
         result[Offset(tables, a) + b] = tables[a].rows[b]

NonEmpty(tables) == SelectSeq(tables, LAMBDA t : t.rows # <<>>)
EmptyOnes(tables) == Len(tables) - Len(NonEmpty(tables))

\* Some figure the sub-tab states is k.
States(v, k) == \E x \in DOMAIN v.numbers : v.numbers[x] = k

\* C2 as claimed: the aggregate of a month's tables is the R rows of its
\* non-empty tables in concatenation order, and when k tables of the month
\* are empty the sub-tab reports the excluded-table count k.
C2_AsClaimed ==
  /\ \A i \in SubTabs("broken_links") :
       LET v == view["broken_links"].tabs[i]
           tables == MonthTables("broken_links", i)
       IN  /\ NonEmpty(tables) # <<>>
                => IsConcatenationOf(v.raw, NonEmpty(tables))
           /\ EmptyOnes(tables) > 0 => States(v, EmptyOnes(tables))
  /\ \A i \in SubTabs("seo") :
       LET v == view["seo"].tabs[i]
           tables == MonthTables("seo", i)
       IN  v.outcome \notin {"exception", "warning"} =>
             /\ IsConcatenationOf(v.aggregated, NonEmpty(tables))
             /\ EmptyOnes(tables) > 0 => States(v, EmptyOnes(tables))

\* C2, amended: the aggregate of a month's tables is the R rows of its
\* non-empty tables in the concatenation order of the month's files, the
\* same R rows however many empty tables lie between them; no excluded-table
\* count is reported: the broken-links sub-tab states no figure at all and
\* warns when every table of the month is empty, the SEO sub-tab states no
\* figure beyond those of its sections.
C2_AggregateInOrder ==
  /\ \A i \in SubTabs("broken_links") :
       LET v == view["broken_links"].tabs[i]
           tables == MonthTables("broken_links", i)
       IN  /\ NonEmpty(tables) # <<>>
                => /\ v.outcome = "rendered"
                   /\ IsConcatenationOf(v.raw, NonEmpty(tables))
           /\ NonEmpty(tables) = <<>> => v.outcome = "warning" /\ v.raw = <<>>
           /\ DOMAIN v.numbers = {}
  /\ \A i \in SubTabs("seo") :
       LET v == view["seo"].tabs[i]
           tables == MonthTables("seo", i)
       IN  v.outcome \notin {"exception", "warning"} =>
             /\ IsConcatenationOf(v.aggregated, NonEmpty(tables))
             /\ IsConcatenationOf(v.aggregated, tables)
             /\ DOMAIN v.numbers \subseteq
                  {"Total Pages Scanned", "Too Short Titles", "Too Long Titles",
                   "Too Short Descriptions", "Too Long Descriptions",
                   "Pages Missing an H1", "Pages with Multiple H1s"}

\* A broken-links month of three reports, the middle one empty, whose raw
\* data are the row of the first and then the row of the third.
C2_Witness ==
  \E i \in SubTabs("broken_links") :
    LET v == view["broken_links"].tabs[i]
        tables == MonthTables("broken_links", i)
    IN  /\ Len(tables) = 3
        /\ tables[2].rows = <<>>
        /\ tables[1].rows # <<>> /\ tables[3].rows # <<>>
        /\ tables[1].rows # tables[3].rows
        /\ v.raw = tables[1].rows \o tables[3].rows

\* The categories whose tab shows month sub-tabs.
Tabbed == {cat \in Categories : view[cat].state = "tabs"}

Month01 == <<"2", "0", "2", "4", "-", "0", "1">>
Month02 == <<"2", "0", "2", "4", "-", "0", "2">>

\* C3: for every listed identifier that follows its category's naming
\* convention, the period key is the seven characters YYYY-MM of the
\* embedded date, read from the third '_'-delimited segment for
\* accessibility and SEO and from the fourth for broken links, and it names
\* a month sub-tab of the category.
C3_PeriodOfConventionKey ==
  \A cat \in Tabbed :
    \A f \in Range(FilesOf(cat)) :
      FollowsConvention(cat, f) =>
        /\ MonthOf(cat, f) = YearMonthOf(cat, f)
        /\ Len(MonthOf(cat, f)) = 7
        /\ MonthOf(cat, f) \in Range(view[cat].months)

\* The broken-links tab shows the months 2024-01 and 2024-02 and the
\* accessibility tab 2024-01.
C3_Witness ==
  /\ {"accessibility", "broken_links"} \subseteq Tabbed
  /\ view["broken_links"].months = <<Month01, Month02>>
  /\ view["accessibility"].months = <<Month01>>

\* C4 as claimed: an identifier that holds no date or has not its
\* category's number of segments never produces a period key: every month
\* sub-tab is the year and month of a listed identifier that follows the
\* convention, and no sub-tab aggregates an identifier that does not.
C4_AsClaimed ==
  \A cat \in Tabbed :
    /\ \A m \in Range(view[cat].months) :
         \E f \in Range(FilesOf(cat)) :
           FollowsConvention(cat, f) /\ m = YearMonthOf(cat, f)
    /\ \A i \in SubTabs(cat) :
         \A f \in Range(view[cat].month_files[i]) : FollowsConvention(cat, f)

\* The period key of each listed identifier, written out: the year and
\* month of one that follows the convention, "garbage" for
\* <prefix>garbage.csv.gz and "20" for <prefix>20_x.csv.gz.
KeyWrittenOut(cat, f) ==
  IF FollowsConvention(cat, f) THEN YearMonthOf(cat, f)
  ELSE IF f = PrefixOf(cat) \o StemGarbage \o CsvGz THEN StemGarbage
  ELSE <<"2", "0">>

\* C4, amended: period resolution validates nothing and never fails for a
\* listed identifier.  Every listed identifier starts with its category's
\* prefix, so it has the segment the resolution reads; its period key is
\* the first seven characters of that segment (for broken links, of the
\* segment up to its first '.'), date or not; the key names a month
\* sub-tab, and that sub-tab aggregates the identifier's table.
C4_EveryListedKeyBecomesATab ==
  \A cat \in Categories :
    /\ view[cat].state # "exception"
    /\ cat \in Tabbed =>
         \A f \in Range(FilesOf(cat)) :
           \E i \in 1..Len(view[cat].months) :
             /\ view[cat].months[i] = KeyWrittenOut(cat, f)
             /\ i \in SubTabs(cat) => f \in Range(view[cat].month_files[i])

\* The SEO tab shows a sub-tab named "garbage" and has rendered it from the
\* table of seo_report_garbage.csv.gz.
C4_Witness ==
  /\ "seo" \in Tabbed
  /\ \E i \in SubTabs("seo") :
       /\ view["seo"].months[i] = StemGarbage
       /\ view["seo"].month_files[i] = <<SeoPrefix \o StemGarbage \o CsvGz>>
       /\ view["seo"].tabs[i].outcome = "rendered"

\* C5 as claimed: whatever identifiers are listed, every listed file is in
\* the group of exactly one month sub-tab.
C5_AsClaimed ==
  \A cat \in Tabbed :
    \A f \in Range(FilesOf(cat)) :
      Cardinality({i \in 1..Len(view[cat].months) :
                     f \in Range(MonthFiles(cat, FilesOf(cat),
                                            view[cat].months[i]))}) = 1

\* C5, amended: grouping a category's listed artifacts by period is a
\* partition when the listed identifiers follow the naming convention.
\* Then the month sub-tabs are exactly the resolved months, each once; the
\* files of the sub-tab of month m are exactly the listed files whose date
\* lies in m, each once; and every listed file is in the group of exactly
\* one month.
C5_GroupsPartition ==
  \A cat \in Tabbed :
    LET files == FilesOf(cat)
        months == view[cat].months
        group(i) == MonthFiles(cat, files, months[i])
    IN  (\A f \in Range(files) : FollowsConvention(cat, f)) =>
          /\ Range(months) = {YearMonthOf(cat, f) : f \in Range(files)}
          /\ Len(months) = Cardinality(Range(months))
          /\ \A i \in 1..Len(months) :
               /\ Range(group(i))
                    = {f \in Range(files) : YearMonthOf(cat, f) = months[i]}
               /\ Len(group(i)) = Cardinality(Range(group(i)))
          /\ \A i \in SubTabs(cat) : view[cat].month_files[i] = group(i)
          /\ \A f \in Range(files) :
               Cardinality({i \in 1..Len(months) : f \in Range(group(i))}) = 1

\* The SEO tab over the reports of 2024-01-05, 2024-01-19 and 2024-02-02:
\* two sub-tabs, of two files and of one.
C5_Witness ==
  /\ "seo" \in Tabbed
  /\ view["seo"].months = <<Month01, Month02>>
  /\ Len(view["seo"].tabs) = 2
  /\ Len(view["seo"].month_files[1]) = 2
  /\ Len(view["seo"].month_files[2]) = 1

\* The rows of the month's aggregated table that the score coercion of
\* lines 229-230 keeps, as the reports hold them: the rows every later
\* section works on.
Analysed(v) ==
  SelectSeq(v.aggregated, LAMBDA r : IsNum(ToNumeric(r["SEO Score"])))

Column(rows, col) == [j \in 1..Len(rows) |-> rows[j][col]]

\* The length classification as the specification states it.
TooShort(c, lower) == IsNum(c) /\ (c.num < lower \/ c.num = 0)
TooLong(c, upper) == IsNum(c) /\ c.num > upper

MetaAnalysed(v) == "Too Short Titles" \in DOMAIN v.numbers

TitleLength == "Title 1 Length"
DescriptionLength == "Meta Description 1 Length"

InRedirectRange(c) ==
  IsNum(ToNumeric(c)) /\ ToNumeric(c).num \in 300..399
Absent(c) == c \in {NaN, Text(<<>>)}
LacksH1(r) == Absent(r["H1-1"])
HasSeveralH1(r) == ~Absent(r["H1-1"]) /\ ~Absent(r["H1-2"])

HeadingsAnalysed(v) == "Pages Missing an H1" \in DOMAIN v.numbers

SectionFigures ==
  {"Total Pages Scanned", "Too Short Titles", "Too Long Titles",
   "Too Short Descriptions", "Too Long Descriptions",
   "Pages Missing an H1", "Pages with Multiple H1s"}

Excluded(v) == Count(v.aggregated, LAMBDA r : ~ValidScore(r["SEO Score"]))

BandCounts(v) == [j \in 1..5 |-> v.seo_category_counts[j].count]

\* C8 as claimed: the rows whose score fails coercion or lies outside
\* [0,100] are in none of the five bands, the band counts and their number
\* add up to the rows of the aggregated table, and the sub-tab reports that
\* number as an excluded-row count.
C8_AsClaimed ==
  \A i \in SubTabs("seo") :
    LET v == view["seo"].tabs[i]
    IN  ScoreAnalysed(v) =>
          /\ \A j \in 1..5 : \A r \in Range(v.category_data[j]) : InBand(r, j)
          /\ SumOf(BandCounts(v), 5) + Excluded(v) = Len(v.aggregated)
          /\ Excluded(v) > 0 => States(v, Excluded(v))

\* C8, amended: SEO rows whose score fails numeric coercion or lies outside
\* [0,100] are never clamped into a band: they are members of none of the
\* five score buckets and add to no band count, so the band counts sum to
\* the rows of the aggregated table less these rows.  No excluded-row count
\* is reported: the rows whose score fails coercion are dropped from the
\* table every later section works on, the rows out of range stay in it
\* without a category, and the sub-tab states no figure for either and
\* warns of nothing but a missing column.
C8_NeverClampedNeverCounted ==
  \A i \in SubTabs("seo") :
    LET v == view["seo"].tabs[i]
    IN  ScoreAnalysed(v) =>
          /\ \A j \in 1..5 :
               /\ \A r \in Range(v.category_data[j]) : InBand(r, j)
               /\ BandCounts(v)[j]
                    = Count(v.aggregated, LAMBDA r : InBand(r, j))
          /\ SumOf(BandCounts(v), 5) = Len(v.aggregated) - Excluded(v)
          /\ Column(v.combined, "SEO Score")
               = SelectSeq([j \in 1..Len(v.aggregated) |->
                              ToNumeric(v.aggregated[j]["SEO Score"])],
                           IsNum)
          /\ \A r \in Range(v.combined) :
               ~ValidScore(r["SEO Score"]) => r["SEO Category"] = NaN
          /\ DOMAIN v.numbers \subseteq SectionFigures
          /\ Range(v.warnings) \subseteq {"H1-1", "H1-2", "Status Code"}

\* A sub-tab over a score that is no number and a score of 101: no band
\* counts either, the table the later sections work on holds the row of 101
\* alone, and no figure other than the total of pages is stated as 2.
C8_Witness ==
  \E i \in SubTabs("seo") :
    LET v == view["seo"].tabs[i]
    IN  /\ ScoreAnalysed(v)
        /\ Column(v.aggregated, "SEO Score") = <<Text(<<"n", "-", "a">>), Num(101)>>
        /\ SumOf(BandCounts(v), 5) = 0
        /\ Column(v.combined, "SEO Score") = <<Num(101)>>
        /\ \A x \in DOMAIN v.numbers \ {"Total Pages Scanned"} :
             v.numbers[x] # 2

\* The four levels in the order the specification fixes.
LevelsInOrder ==
  <<<<"c", "r", "i", "t", "i", "c", "a", "l">>,
    <<"s", "e", "r", "i", "o", "u", "s">>,
    <<"m", "o", "d", "e", "r", "a", "t", "e">>,
    <<"m", "i", "n", "o", "r">>>>

\* C9: the severity summary is fixed.  In every accessibility sub-tab that
\* shows the summary, it lists exactly the four buckets critical, serious,
\* moderate, minor in that order, the empty ones with count 0; each count
\* is the number of rows of the month's aggregated table whose Impact is
\* that level, and the rows shown for a level are those rows; a row with
\* any other Impact adds to no count, and the raw table of a rendered
\* sub-tab holds every aggregated row, these included.
C9_FixedSeveritySummary ==
  \A i \in SubTabs("accessibility") :
    LET v == view["accessibility"].tabs[i]
        rows == ConcatRows(MonthTables("accessibility", i))
    IN  /\ v.impact_counts # <<>> =>
             /\ [j \in 1..Len(v.impact_counts) |-> v.impact_counts[j].Impact]
                  = LevelsInOrder
             /\ \A j \in 1..4 :
                  /\ v.impact_counts[j].Count
                       = Len(SelectSeq(rows,
                               LAMBDA r : r["Impact"] = Text(LevelsInOrder[j])))
                  /\ v.impact_data[j]
                       = SelectSeq(rows,
                           LAMBDA r : r["Impact"] = Text(LevelsInOrder[j]))
        /\ v.outcome = "rendered" =>
             /\ v.impact_counts # <<>>
             /\ IsConcatenationOf(v.raw, MonthTables("accessibility", i))

\* A rendered sub-tab over a critical violation and one of impact "info":
\* the summary counts 1, 0, 0, 0 and the raw table holds both rows.
C9_Witness ==
  \E i \in SubTabs("accessibility") :
    LET v == view["accessibility"].tabs[i]
    IN  /\ v.outcome = "rendered"
        /\ [j \in 1..Len(v.impact_counts) |-> v.impact_counts[j].Count]
             = <<1, 0, 0, 0>>
        /\ Range(Column(v.raw, "Impact"))
             = {Text(<<"c", "r", "i", "t", "i", "c", "a", "l">>), Text(<<"i", "n", "f", "o">>)}

StatusAnalysed(v) == "HTTP Status Codes Issues" \in Range(v.sections)

LowerUnknown == <<"u", "n", "k", "n", "o", "w", "n">>
CapitalUnknown == <<"U", "n", "k", "n", "o", "w", "n">>

Status(r) == r["Indexability Status"]

\* The buckets of the breakdown: the values in the order shown, the count
\* shown with each, the rows shown for each.
IssuesShown(v) ==
  [k \in 1..Len(v.canonicalization_issues) |-> v.canonicalization_issues[k][1]]

\* The buckets hold the rows of the values not in excluded: one bucket per
\* such value, in increasing order, each with the rows of its value.
BucketsOver(v, excluded) ==
  LET kept == SelectSeq(Analysed(v), LAMBDA r : Status(r) \notin excluded)
  IN  /\ Range(IssuesShown(v)) = {Status(r).str : r \in Range(kept)}
      /\ \A k \in 1..(Len(IssuesShown(v)) - 1) :
           StrLess(IssuesShown(v)[k], IssuesShown(v)[k + 1])
      /\ Len(v.issue_data) = Len(IssuesShown(v))
      /\ \A k \in 1..Len(IssuesShown(v)) :
           /\ v.canonicalization_issues[k][2] = Len(v.issue_data[k])
           /\ Len(v.issue_data[k])
                = Len(SelectSeq(Analysed(v),
                        LAMBDA r : Status(r) = Text(IssuesShown(v)[k])))
           /\ \A r \in Range(v.issue_data[k]) :
                Status(r) = Text(IssuesShown(v)[k])
      /\ SumOf([k \in 1..Len(v.issue_data) |-> Len(v.issue_data[k])],
               Len(v.issue_data)) = Len(kept)

AllEmpty(cat, i) == NonEmpty(MonthTables(cat, i)) = <<>>

\* C11 as claimed: when every table of a month is empty, the sub-tab of
\* that month ends in the no-data warning in each category, never in an
\* exception or the error message, and shows no classification made from
\* the empty aggregate: no severity summary, no SEO section.
C11_AsClaimed ==
  \A cat \in Tabbed :
    \A i \in SubTabs(cat) :
      AllEmpty(cat, i) =>
        /\ view[cat].tabs[i].outcome = "warning"
        /\ cat = "accessibility" => view[cat].tabs[i].impact_counts = <<>>
        /\ cat = "seo" => view[cat].tabs[i].sections = <<>>

\* C11 for broken links alone, where the code filters the empty tables
\* out: a month of empty tables ends in the warning and shows no table.
C11_BrokenLinksWarns ==
  "broken_links" \in Tabbed =>
    \A i \in SubTabs("broken_links") :
      AllEmpty("broken_links", i) =>
        /\ view["broken_links"].tabs[i].outcome = "warning"
        /\ view["broken_links"].tabs[i].raw = <<>>

\* An SEO month whose two reports are both empty, rendered to its last
\* section with every band count 0.
C11_SeoRendersTheEmptyAggregate ==
  \E i \in SubTabs("seo") :
    LET v == view["seo"].tabs[i]
    IN  /\ Len(MonthTables("seo", i)) = 2
        /\ AllEmpty("seo", i)
        /\ v.outcome = "rendered"
        /\ Len(v.sections) = 5
        /\ SumOf(BandCounts(v), 5) = 0

\* The columns of a month's aggregated table, and the first column of
\* wanted that it lacks (0 when it has them all).
MonthColumns(cat, i) ==
  UNION {MonthTables(cat, i)[a].columns : a \in 1..Len(MonthTables(cat, i))}

FirstLacked(wanted, cols) ==
  IF \A a \in 1..Len(wanted) : wanted[a] \in cols THEN 0
  ELSE CHOOSE a \in 1..Len(wanted) :
         /\ wanted[a] \notin cols
         /\ \A b \in 1..(a - 1) : wanted[b] \in cols

ScoreCheck == <<"SEO Score", "Title 1 Length", "Meta Description 1 Length">>
HeadingCheck == <<"H1-1", "H1-2", "Status Code">>

\* C12 as claimed: a missing column is not fatal.  An SEO sub-tab that
\* warns of a missing column is followed by the sub-tabs of all the later
\* months, it warns of each column it lacks, and it still shows the raw
\* table when that has its columns.
C12_AsClaimed ==
  "seo" \in Tabbed =>
    \A i \in SubTabs("seo") :
      LET v == view["seo"].tabs[i]
          cols == MonthColumns("seo", i)
      IN  v.warnings # <<>> =>
            /\ Len(view["seo"].tabs) = Len(view["seo"].months)
            /\ Range(v.warnings)
                 = (Range(ScoreCheck) \cup Range(HeadingCheck)) \ cols
            /\ SeoRawColumns \subseteq cols
                 => "Raw Metadata Data" \in Range(v.sections)

\* C12, amended: a missing expected column ends the script run.  An SEO
\* sub-tab whose aggregated table lacks one of SEO Score, Title 1 Length,
\* Meta Description 1 Length warns of the first of them it lacks and stops
\* before any section; one that has these and lacks one of H1-1, H1-2,
\* Status Code warns of the first of those when it reaches the H1 overview,
\* after the score, status and meta-data sections, and stops there.  In
\* both cases one warning is issued, whatever the number of missing
\* columns; neither the H1 overview nor the raw table of that month nor
\* the sub-tab of any later month is rendered; the accessibility and
\* broken-links tabs, rendered before, stay.  A sub-tab stops for no other
\* reason.
C12_MissingColumnStopsTheRun ==
  "seo" \in Tabbed =>
    \A i \in SubTabs("seo") :
      LET v == view["seo"].tabs[i]
          cols == MonthColumns("seo", i)
          a == FirstLacked(ScoreCheck, cols)
          b == FirstLacked(HeadingCheck, cols)
      IN  /\ (v.outcome # "exception" /\ a # 0) =>
               /\ v.outcome = "stopped"
               /\ v.warnings = <<ScoreCheck[a]>>
               /\ v.sections = <<>>
          /\ v.outcome = "stopped" =>
               /\ a # 0 \/ b # 0
               /\ a = 0 =>
                    /\ v.warnings = <<HeadingCheck[b]>>
                    /\ v.sections = <<"SEO Score Analysis",
                                      "HTTP Status Codes Issues",
                                      "Meta Data Analysis">>
               /\ i = Len(view["seo"].tabs)
               /\ pc = "stopped"
               /\ view["accessibility"].state # "none"
               /\ view["broken_links"].state # "none"
          /\ (v.outcome = "rendered" \/ "H1 Tag Issues Overview" \in Range(v.sections))
               => a = 0 /\ b = 0 /\ v.warnings = <<>>

\* The January report lacks SEO Score and Title 1 Length: its sub-tab
\* warns of SEO Score alone and shows no section, the sub-tab of February
\* is not rendered, and the run has stopped.
C12_Witness ==
  /\ "seo" \in Tabbed
  /\ pc = "stopped"
  /\ Len(view["seo"].months) = 2
  /\ Len(view["seo"].tabs) = 1
  /\ {"SEO Score", "Title 1 Length"} \cap MonthColumns("seo", 1) = {}
  /\ view["seo"].tabs[1].warnings = <<"SEO Score">>
  /\ view["seo"].tabs[1].sections = <<>>

\* The run ended on an exception before it reached the first tab: while
\* listing or preloading.
EndedOnStorageFailure ==
  pc = "aborted" /\ \A cat \in Categories : view[cat].state = "none"

\* C13 as claimed: a storage failure while listing the artifacts or
\* fetching a table never aborts the run; the run goes on to the tabs.
C13_AsClaimed == ~EndedOnStorageFailure

\* The run that a failed fetch ended: the accessibility report is preloaded
\* and cached, the SEO reports are listed but not read, and nothing is
\* rendered, not even the accessibility tab whose data the session holds.
C13_NothingRenderedAfterAFailedFetch ==
  /\ EndedOnStorageFailure
  /\ session.preloaded["accessibility"] # None
  /\ session.files["accessibility"][1] # <<>>
  /\ session.files["seo"] # None
  /\ session.preloaded["seo"] = None
  /\ view = NoView

TotalFigure == "Total Pages Scanned"

\* The categories whose sub-tabs state a total.
Totalled == {"accessibility", "seo"}

\* C14 as claimed: the total that the sub-tab of a category and month
\* states is the number of rows of that month's aggregated table of that
\* category, and every sub-tab of a category that has reports states it,
\* whatever the other categories hold.
C14_AsClaimed ==
  \A cat \in Totalled \cap Tabbed :
    \A i \in SubTabs(cat) :
      LET v == view[cat].tabs[i]
      IN  /\ TotalFigure \in DOMAIN v.numbers
          /\ v.numbers[TotalFigure] = Len(ConcatRows(MonthTables(cat, i)))

\* What the code states instead: in the accessibility and the SEO tab
\* alike, and in every month, the number of rows of the first SEO report
\* of the session; with no SEO report the sub-tab raises and states
\* nothing.
C14_TotalOfTheFirstSeoReport ==
  \A cat \in Totalled \cap Tabbed :
    \A i \in SubTabs(cat) :
      LET v == view[cat].tabs[i]
          seo == session.files["seo"][1]
      IN  /\ seo = <<>> => v.outcome = "exception" /\ DOMAIN v.numbers = {}
          /\ TotalFigure \in DOMAIN v.numbers =>
               v.numbers[TotalFigure] = Len(session.cache[seo[1]].rows)

\* The accessibility tab over one report while the bucket holds no SEO
\* report: its first sub-tab raises, no total is stated, the run is over.
C14_NoTotalWithoutSeoReports ==
  /\ "accessibility" \in Tabbed
  /\ session.files["seo"][1] = <<>>
  /\ Len(FilesOf("accessibility")) = 1
  /\ view["accessibility"].tabs[1].outcome = "exception"
  /\ pc = "aborted"

\* C15: session-cache stability.  Once read_s3_csv_gzip has stored the
\* table of a key in the session, the session holds that key with that
\* table ever after: no step of any run (a listing, a preload that reads the
\* key again, a tab with its in-place edits of the aggregated table, a
\* rerun) and no rewrite of the object in the bucket changes it, and the
\* tables a preloaded dictionary gives are the cached ones.
C15_CachedTablesStay ==
  [][\A f \in DOMAIN session.cache :
       /\ f \in DOMAIN session'.cache
       /\ session'.cache[f] = session.cache[f]]_vars

\* The session still holds the table first fetched for a report that has
\* since been overwritten in the bucket, after a rerun whose SEO tab has
\* rendered from it and edited its aggregate: the tab's table has the SEO
\* Category column, the cached table has not.
C15_Witness ==
  /\ pc = "done"
  /\ "seo" \in Tabbed
  /\ \E i \in SubTabs("seo") :
       LET v == view["seo"].tabs[i]
           f == view["seo"].month_files[i][1]
       IN  /\ ScoreAnalysed(v)
           /\ v.combined # <<>>
           /\ "SEO Category" \in DOMAIN v.combined[1]
           /\ session.cache[f].rows # <<>>
           /\ bucket[f].rows = <<>>
           /\ "SEO Category" \notin session.cache[f].columns
           /\ \A r \in Range(session.cache[f].rows) :
                "SEO Category" \notin DOMAIN r

====
